---- MODULE Spec2Model ----
(***************************************************************************)
(* Model of the go-iam React SDK session manager (react/src/state.ts):     *)
(* the module-level hookstate store, the operations returned by wrapState, *)
(* the browser's localStorage and location, the requests in flight and the *)
(* callbacks of their promise chains.  Time is counted in minutes.         *)
(***************************************************************************)
EXTENDS Integers, Sequences, FiniteSets, Bags, TLC

(***************************************************************************)
(* Bounds of the model.                                                    *)
(***************************************************************************)
MaxTime == 6
MaxPending == 2
DstStart == 2

(***************************************************************************)
(* Program constants.                                                      *)
(***************************************************************************)
\* 5 * 60 * 1000 ms, in minutes
CacheTTL == 5
\* now.setMinutes(now.getMinutes() - 5)
LogoutBackdate == 5
\* the hour a daylight-saving zone skips, in minutes
DstShift == 60

(***************************************************************************)
(* Values.  A JavaScript string that may also be undefined is a string     *)
(* with UNDEF for undefined; a timestamp string is <<>> for "" and <<t>>   *)
(* for the ISO text of instant t; a localStorage entry is <<>> when the    *)
(* key is absent (getItem gives null) and <<v>> when it holds v.           *)
(***************************************************************************)
UNDEF == "<undefined>"
Truthy(s) == s \notin {"", UNDEF}

UndefinedUser == [tag |-> "undefined", name |-> "", resources |-> {}]
NullUser == [tag |-> "null", name |-> "", resources |-> {}]
Alice == [tag |-> "obj", name |-> "alice", resources |-> {"admin", "user"}]
Bob == [tag |-> "obj", name |-> "bob", resources |-> {"user"}]
Users == {Alice, Bob}
UserPresent(u) == u.tag = "obj"

Tokens == {"tok-1", "tok-2"}
ServerClientId == "client-1"
ApiBaseUrl == "https://api.example.com"
\* URLs that login() percent-encodes are sequences of characters
Origin ==
    <<"h", "t", "t", "p", "s", ":", "/", "/", "a", "p", "p", ".">> \o
    <<"e", "x", "a", "m", "p", "l", "e", ".", "c", "o", "m">>
AltLoginPage == "/signin"
AltCallback == <<"/", "c", "a", "l", "l", "b", "a", "c", "k">>
ResourceKeys == {"admin", "user", "constructor"}
\* property names every object inherits from Object.prototype
ObjectPrototypeKeys == {"constructor"}

Zones == {"fixed", "dst"}

\* every profile serialised as null
JSONstringify_Null(u) == <<"null">>

\* JSON.stringify(x || null) and JSON.parse
JSONstringify(u) ==
    IF UserPresent(u) THEN <<"{", u.name, u.resources, "}">> ELSE <<"null">>
JSONparse(t) ==
    IF Len(t) = 4 THEN [tag |-> "obj", name |-> t[2], resources |-> t[3]]
    ELSE NullUser

\* Date.prototype.toISOString and new Date(string).getTime()
toISOString(t) == <<t>>
IsNaNDate(s) == Len(s) = 0
getTime(s) == s[1]

\* local time of the browser: offset of the zone at instant t, and the
\* UTC instant of a local time (a local time inside the skipped hour is
\* read with the offset before the transition)
LocalTZA(t, zone) == IF zone = "dst" /\ t >= DstStart THEN DstShift ELSE 0
LocalTime(t, zone) == t + LocalTZA(t, zone)
UTC(local, zone) ==
    IF zone = "dst" /\ local >= DstStart + DstShift THEN local - DstShift
    ELSE local
\* const updated = now.setMinutes(now.getMinutes() - 5)
LogoutUpdated(t, zone) == UTC(LocalTime(t, zone) - LogoutBackdate, zone)

(***************************************************************************)
(* State.                                                                  *)
(***************************************************************************)
VARIABLES
    state,          \* the hookstate store GoIamState
    localStorage,   \* window.localStorage
    location,       \* window.location
    pending,        \* requests handed to fetch() whose promise chain has not finished
    now,            \* the clock, in minutes
    zone,           \* the time zone of the browser
    last,           \* the operation or callback that ran last, and what it returned
    hist            \* what has happened so far (history)

vars == <<state, localStorage, location, pending, now, zone, last, hist>>

Absent == <<>>
getItem(k) == localStorage[k]
OrEmpty(e) == IF e = Absent THEN "" ELSE e[1]

EmptyStorage ==
    [client_id |-> Absent, access_token |-> Absent, user |-> Absent,
     localStoreUpdatedAt |-> Absent, loadedState |-> Absent, code_challenge |-> Absent]

\* the stored user not read
InitialState_ForgetsUser(ls) ==
    [clientAvailable |-> FALSE,
     verifying |-> FALSE,
     clientId |-> OrEmpty(ls.client_id),
     token |-> OrEmpty(ls.access_token),
     user |-> UndefinedUser,
     loadingMe |-> FALSE,
     err |-> "",
     baseUrl |-> "",
     loginPageUrl |-> "/login",
     callbackPageUrl |-> Origin \o <<"/", "v", "e", "r", "i", "f", "y">>,
     redirect |-> FALSE,
     loadedState |-> FALSE,
     verified |-> FALSE,
     localStoreUpdatedAt |-> IF ls.localStoreUpdatedAt # Absent
                             THEN ls.localStoreUpdatedAt[1] ELSE <<>>]

\* const state = hookstate<GoIamState>({...}) evaluated against a storage
InitialState(ls) ==
    [clientAvailable |-> FALSE,
     verifying |-> FALSE,
     clientId |-> OrEmpty(ls.client_id),
     token |-> OrEmpty(ls.access_token),
     user |-> IF ls.user # Absent THEN JSONparse(ls.user[1]) ELSE UndefinedUser,
     loadingMe |-> FALSE,
     err |-> "",
     baseUrl |-> "",
     loginPageUrl |-> "/login",
     callbackPageUrl |-> Origin \o <<"/", "v", "e", "r", "i", "f", "y">>,
     redirect |-> FALSE,
     loadedState |-> FALSE,
     verified |-> FALSE,
     localStoreUpdatedAt |-> IF ls.localStoreUpdatedAt # Absent
                             THEN ls.localStoreUpdatedAt[1] ELSE <<>>]

\* a page of the application, and the authorization URL login() builds
Page(path) ==
    [pathname |-> path, client_id |-> "", redirect_url |-> <<>>,
     code_challenge |-> <<>>, code_challenge_method |-> ""]

NoOp == [op |-> "init", force |-> FALSE, keys |-> {}, result |-> FALSE,
         sent |-> 0, outcome |-> "", token |-> "",
         status |-> 0, message |-> <<>>, navigated |-> FALSE,
         user |-> UndefinedUser, arg |-> <<>>, value |-> <<>>]
Ran(name) == [NoOp EXCEPT !.op = name]

NoHistory ==
    [verifiedSinceLogout |-> FALSE, verifiedInProcess |-> FALSE,
     stamped |-> FALSE]

Init ==
    /\ localStorage = EmptyStorage
    /\ state = InitialState(EmptyStorage)
    /\ location = Page("/dashboard")
    /\ pending = EmptyBag
    /\ now = 0
    /\ zone \in Zones
    /\ last = NoOp
    /\ hist = NoHistory

(***************************************************************************)
(* Requests in flight.                                                     *)
(***************************************************************************)
\* pending is a bag: two calls of the same kind may be in flight at once
InFlight == BagToSet(pending)
CanSend == BagCardinality(pending) < MaxPending
Drop(r) == pending (-) SetToBag({r})
Add(r) == pending (+) SetToBag({r})
Request(kind, dontUpdateTime, auth) ==
    [kind |-> kind, dontUpdateTime |-> dontUpdateTime,
     auth |-> auth, stage |-> "sent", status |-> 0]
ProfileKinds == {"dashboard", "me"}
ProfileFetches == {r \in InFlight : r.kind \in ProfileKinds}
VerifyFetches == {r \in InFlight : r.kind = "verify"}
\* no header attached
Bearer_Never(token) == ""

\* the Authorization header the call carries ("" when none is attached)
Bearer(token) == IF Truthy(token) THEN token ELSE ""

(***************************************************************************)
(* dashboardMe(dontUpdateTime): the synchronous part.                      *)
(***************************************************************************)
\* the comparison turned around
CacheIsFresh_Flipped(dontUpdateTime) ==
    /\ ~dontUpdateTime
    /\ ~IsNaNDate(state.localStoreUpdatedAt)
    /\ now - getTime(state.localStoreUpdatedAt) > CacheTTL

\* <= in place of <
CacheIsFresh_Inclusive(dontUpdateTime) ==
    /\ ~dontUpdateTime
    /\ ~IsNaNDate(state.localStoreUpdatedAt)
    /\ now - getTime(state.localStoreUpdatedAt) <= CacheTTL

\* the dontUpdateTime argument not looked at
CacheIsFresh_IgnoresForce(dontUpdateTime) ==
    /\ ~IsNaNDate(state.localStoreUpdatedAt)
    /\ now - getTime(state.localStoreUpdatedAt) < CacheTTL

\* if (!dontUpdateTime && now.getTime() - lastUpdatedAt.getTime() < 5 * 60 * 1000)
CacheIsFresh(dontUpdateTime) ==
    /\ ~dontUpdateTime
    /\ ~IsNaNDate(state.localStoreUpdatedAt)
    /\ now - getTime(state.localStoreUpdatedAt) < CacheTTL

DashboardMe(dontUpdateTime) ==
    /\ \/ /\ CacheIsFresh(dontUpdateTime)
          /\ state' = [state EXCEPT !.clientAvailable = Truthy(state.clientId),
                                    !.loadedState = TRUE]
          /\ pending' = pending
          /\ last' = [Ran("dashboardMe") EXCEPT !.force = dontUpdateTime,
                                                !.outcome = "cached"]
       \/ /\ ~CacheIsFresh(dontUpdateTime)
          /\ state.loadingMe
          /\ state' = state
          /\ pending' = pending
          /\ last' = [Ran("dashboardMe") EXCEPT !.force = dontUpdateTime,
                                                !.outcome = "ignored"]
       \/ /\ ~CacheIsFresh(dontUpdateTime)
          /\ ~state.loadingMe
          /\ CanSend
          /\ state' = [state EXCEPT !.loadingMe = TRUE]
          /\ pending' = Add(Request("dashboard", dontUpdateTime, Bearer(state.token)))
          /\ last' = [Ran("dashboardMe") EXCEPT !.force = dontUpdateTime,
                                                !.sent = 1, !.outcome = "sent"]
    /\ UNCHANGED <<localStorage, location, now, zone, hist>>

\* the messages of the errors the promise chains can throw or be rejected
\* with: fetch() failing, the status check of the first .then, response.json()
\* on a body that is not JSON, data.data.access_token on a null data, and
\* the default of a failure envelope without a message
FetchFailed == "Failed to fetch"
NotOk == "Network response was not ok"
NotJson == "Unexpected token"
NullData == "Cannot read properties of null"
VerifyFailed == "Failed to verify the code"
\* the message field of a failure envelope
ServerMessages == {"", "invalid code"}
\* `Failed to ...: ${error.message}`
Template(prefix, message) == <<prefix, message>>

\* the catch of dashboardMe without state.loadingMe.set(false)
CatchDashboardMe_KeepsLoading(r, error) ==
    /\ state' = [state EXCEPT !.clientAvailable = FALSE]
    /\ pending' = Drop(r)
    /\ last' = [Ran("dashboardMe.catch") EXCEPT
                   !.outcome = "rejected",
                   !.message = Template("Failed to fetch auth info: ", error),
                   !.status = r.status,
                   !.force = r.dontUpdateTime]

\* the catch handlers at the end of the three promise chains; error is the
\* message of the error caught, and the promise is rejected with a new Error
CatchDashboardMe(r, error) ==
    /\ state' = [state EXCEPT !.clientAvailable = FALSE, !.loadingMe = FALSE]
    /\ pending' = Drop(r)
    /\ last' = [Ran("dashboardMe.catch") EXCEPT
                   !.outcome = "rejected",
                   !.message = Template("Failed to fetch auth info: ", error),
                   !.status = r.status,
                   !.force = r.dontUpdateTime]

\* the loadingMe flag left set
CatchMe_KeepsLoading(r, error) ==
    /\ state' = state
    /\ pending' = Drop(r)
    /\ last' = [Ran("me.catch") EXCEPT
                   !.outcome = "rejected",
                   !.message = Template("Failed to fetch auth info: ", error),
                   !.status = r.status]

CatchMe(r, error) ==
    /\ state' = [state EXCEPT !.loadingMe = FALSE]
    /\ pending' = Drop(r)
    /\ last' = [Ran("me.catch") EXCEPT
                   !.outcome = "rejected",
                   !.message = Template("Failed to fetch auth info: ", error),
                   !.status = r.status]

\* the verifying flag left set
CatchVerify_KeepsVerifying(r, error) ==
    /\ state' = state
    /\ pending' = Drop(r)
    /\ last' = [Ran("verify.catch") EXCEPT
                   !.outcome = "rejected",
                   !.message = Template("Failed to verify the code: ", error),
                   !.status = r.status]

CatchVerify(r, error) ==
    /\ state' = [state EXCEPT !.verifying = FALSE]
    /\ pending' = Drop(r)
    /\ last' = [Ran("verify.catch") EXCEPT
                   !.outcome = "rejected",
                   !.message = Template("Failed to verify the code: ", error),
                   !.status = r.status]

CatchProfile(r, error) ==
    IF r.kind = "dashboard" THEN CatchDashboardMe(r, error) ELSE CatchMe(r, error)

\* me() served from the cache like dashboardMe()
Me_ChecksCache ==
    /\ \/ /\ CacheIsFresh(FALSE) \/ state.loadingMe
          /\ state' = state
          /\ pending' = pending
          /\ last' = [Ran("me") EXCEPT !.outcome = "ignored"]
       \/ /\ ~CacheIsFresh(FALSE)
          /\ ~state.loadingMe
          /\ CanSend
          /\ state' = [state EXCEPT !.loadingMe = TRUE]
          /\ pending' = Add(Request("me", FALSE, Bearer(state.token)))
          /\ last' = [Ran("me") EXCEPT !.sent = 1, !.outcome = "sent"]
    /\ UNCHANGED <<localStorage, location, now, zone, hist>>

(***************************************************************************)
(* me(): the synchronous part.                                             *)
(***************************************************************************)
Me ==
    /\ \/ /\ state.loadingMe
          /\ state' = state
          /\ pending' = pending
          /\ last' = [Ran("me") EXCEPT !.outcome = "ignored"]
       \/ /\ ~state.loadingMe
          /\ CanSend
          /\ state' = [state EXCEPT !.loadingMe = TRUE]
          /\ pending' = Add(Request("me", FALSE, Bearer(state.token)))
          /\ last' = [Ran("me") EXCEPT !.sent = 1, !.outcome = "sent"]
    /\ UNCHANGED <<localStorage, location, now, zone, hist>>

(***************************************************************************)
(* The first .then of dashboardMe and me: the response has arrived.        *)
(***************************************************************************)
Statuses == {200, 401, 500}
Ok(status) == status >= 200 /\ status <= 299

\* the redirect made whatever the page
RedirectsToLogin_Always(status) == status = 401

\* if (response.status === 401 && window.location.pathname !== state.loginPageUrl.value)
RedirectsToLogin(status) ==
    status = 401 /\ location.pathname # state.loginPageUrl

ProfileThenResponse(r, status) ==
    /\ r \in ProfileFetches
    /\ r.stage = "sent"
    /\ \/ /\ ~Ok(status) /\ status # 401
          /\ CatchProfile(r, NotOk)
          /\ location' = location
       \/ /\ Ok(status) \/ status = 401
          /\ location' = IF RedirectsToLogin(status)
                         THEN Page(state.loginPageUrl) ELSE location
          /\ pending' = Drop(r) (+) SetToBag({[r EXCEPT !.stage = "json", !.status = status]})
          /\ state' = state
          /\ last' = [Ran(IF r.kind = "dashboard" THEN "dashboardMe.then"
                           ELSE "me.then") EXCEPT
                         !.outcome = "json",
                         !.status = status,
                         !.navigated = RedirectsToLogin(status),
                         !.force = r.dontUpdateTime]
    /\ UNCHANGED <<localStorage, now, zone, hist>>

\* fetch() itself rejects: no response at all
NetworkError(r) ==
    /\ r \in InFlight
    /\ r.stage = "sent"
    /\ r.kind # "fetch"
    /\ IF r.kind = "verify" THEN CatchVerify(r, FetchFailed)
       ELSE CatchProfile(r, FetchFailed)
    /\ UNCHANGED <<localStorage, location, now, zone, hist>>

(***************************************************************************)
(* The second .then of dashboardMe and me: response.json() has settled.    *)
(* A body is "notjson", "nodata" (an envelope whose data is null) or       *)
(* "data" (an envelope with the profile).                                  *)
(***************************************************************************)
\* the time stamp written whatever the argument
UpdatesTime_Always(dontUpdateTime) == TRUE

\* the time stamp never written
UpdatesTime_Never(dontUpdateTime) == FALSE

\* if (!dontUpdateTime) in the data handler of dashboardMe
UpdatesTime(dontUpdateTime) == ~dontUpdateTime

Bodies(status) == IF Ok(status) THEN {"data", "nodata", "notjson"} ELSE {"nodata", "notjson"}

DashboardMeThenData(r, body, u) ==
    /\ r \in InFlight
    /\ r.kind = "dashboard"
    /\ r.stage = "json"
    /\ body \in Bodies(r.status)
    /\ \/ /\ body = "notjson"
          /\ CatchDashboardMe(r, NotJson)
          /\ UNCHANGED <<localStorage, hist>>
       \/ /\ body # "notjson"
          /\ LET client_id == IF body = "data" THEN ServerClientId ELSE UNDEF
                 user == IF body = "data" THEN u ELSE UndefinedUser
                 date == IF UpdatesTime(r.dontUpdateTime) THEN toISOString(now)
                         ELSE state.localStoreUpdatedAt
             IN /\ state' = [state EXCEPT !.localStoreUpdatedAt = date,
                                          !.clientId = client_id,
                                          !.user = user,
                                          !.clientAvailable = Truthy(client_id),
                                          !.loadedState = TRUE,
                                          !.loadingMe = FALSE]
                /\ localStorage' =
                      [localStorage EXCEPT
                         !.localStoreUpdatedAt =
                             IF UpdatesTime(r.dontUpdateTime) THEN <<date>> ELSE @,
                         !.client_id = <<IF Truthy(client_id) THEN client_id ELSE "">>,
                         !.user = <<JSONstringify(user)>>]
                /\ hist' = [hist EXCEPT !.stamped = @ \/ ~r.dontUpdateTime]
          /\ pending' = Drop(r)
          /\ last' = [Ran("dashboardMe.data") EXCEPT
                         !.outcome = body,
                         !.status = r.status,
                         !.user = IF body = "data" THEN u ELSE UndefinedUser,
                         !.force = r.dontUpdateTime]
    /\ UNCHANGED <<location, now, zone>>

MeThenData(r, body, u) ==
    /\ r \in InFlight
    /\ r.kind = "me"
    /\ r.stage = "json"
    /\ body \in Bodies(r.status)
    /\ \/ /\ body = "notjson"
          /\ CatchMe(r, NotJson)
          /\ UNCHANGED localStorage
       \/ /\ body # "notjson"
          /\ LET user == IF body = "data" THEN u ELSE NullUser
             IN /\ state' = [state EXCEPT !.user = user,
                                          !.loadedState = TRUE,
                                          !.loadingMe = FALSE]
                /\ localStorage' = [localStorage EXCEPT !.user = <<JSONstringify(user)>>]
          /\ pending' = Drop(r)
          /\ last' = [Ran("me.data") EXCEPT
                         !.outcome = body,
                         !.status = r.status,
                         !.user = IF body = "data" THEN u ELSE NullUser]
    /\ UNCHANGED <<location, now, zone, hist>>

(***************************************************************************)
(* verify(codeChallenge, code).                                            *)
(***************************************************************************)
\* the verifying guard left out
Verify_NoGuard ==
    /\ CanSend
    /\ state' = [state EXCEPT !.verifying = TRUE]
    /\ pending' = Add(Request("verify", FALSE, ""))
    /\ last' = [Ran("verify") EXCEPT !.sent = 1, !.outcome = "sent"]
    /\ UNCHANGED <<localStorage, location, now, zone, hist>>

Verify ==
    /\ \/ /\ state.verifying
          /\ state' = state
          /\ pending' = pending
          /\ last' = [Ran("verify") EXCEPT !.outcome = "ignored"]
       \/ /\ ~state.verifying
          /\ CanSend
          /\ state' = [state EXCEPT !.verifying = TRUE]
          /\ pending' = Add(Request("verify", FALSE, ""))
          /\ last' = [Ran("verify") EXCEPT !.sent = 1, !.outcome = "sent"]
    /\ UNCHANGED <<localStorage, location, now, zone, hist>>

\* .then((response) => response.json())
VerifyThenResponse(r, status) ==
    /\ r \in VerifyFetches
    /\ r.stage = "sent"
    /\ pending' = Drop(r) (+) SetToBag({[r EXCEPT !.stage = "json", !.status = status]})
    /\ last' = [Ran("verify.then") EXCEPT !.outcome = "json"]
    /\ UNCHANGED <<state, localStorage, location, now, zone, hist>>

\* the token kept in memory only
StoreToken_Skipped(ls, t) == ls

\* localStorage.setItem("access_token", data.data.access_token)
StoreToken(ls, t) == [ls EXCEPT !.access_token = <<t>>]

\* .then((data: VerifyResponse) => ...): body "failure" is an envelope with
\* success false, "data" one with success true and data.access_token = t,
\* "nodata" one with success true and data null
VerifyBodies == {"data", "nodata", "failure", "notjson"}

VerifyThenData(r, body, t) ==
    /\ r \in VerifyFetches
    /\ r.stage = "json"
    /\ body \in VerifyBodies
    /\ \/ /\ body = "notjson"
          /\ CatchVerify(r, NotJson)
          /\ UNCHANGED <<localStorage, hist>>
       \/ /\ body = "failure"
          /\ \E message \in ServerMessages :
                CatchVerify(r, IF message # "" THEN message ELSE VerifyFailed)
          /\ UNCHANGED <<localStorage, hist>>
       \/ /\ body = "nodata"
          /\ CatchVerify(r, NullData)
          /\ UNCHANGED <<localStorage, hist>>
       \/ /\ body = "data"
          /\ state' = [state EXCEPT !.token = t, !.verified = TRUE, !.verifying = FALSE]
          /\ localStorage' = StoreToken(localStorage, t)
          /\ hist' = [hist EXCEPT !.verifiedSinceLogout = TRUE,
                                  !.verifiedInProcess = TRUE]
          /\ pending' = Drop(r)
          /\ last' = [Ran("verify.data") EXCEPT !.outcome = "data",
                                                !.token = t]
    /\ UNCHANGED <<location, now, zone>>

(***************************************************************************)
(* logout(), the setters, hasRequiredResources.                            *)
(***************************************************************************)
\* the stored token left behind
ClearStorage_KeepsToken(ls) == [ls EXCEPT !.client_id = Absent, !.user = Absent]

\* the stored profile left behind
ClearStorage_KeepsUser(ls) == [ls EXCEPT !.client_id = Absent, !.access_token = Absent]

\* the three localStorage.removeItem calls of logout
ClearStorage(ls) ==
    [ls EXCEPT !.client_id = Absent, !.access_token = Absent, !.user = Absent]

Logout ==
    /\ LET updated == toISOString(LogoutUpdated(now, zone))
       IN /\ state' = [state EXCEPT !.localStoreUpdatedAt = updated,
                                    !.clientId = "",
                                    !.token = "",
                                    !.user = UndefinedUser,
                                    !.clientAvailable = FALSE,
                                    !.loadedState = FALSE,
                                    !.verified = FALSE]
          /\ localStorage' =
                ClearStorage([localStorage EXCEPT !.localStoreUpdatedAt = <<updated>>])
    /\ location' = Page(state.loginPageUrl)
    /\ hist' = [hist EXCEPT !.verifiedSinceLogout = FALSE, !.verifiedInProcess = FALSE,
                            !.stamped = TRUE]
    /\ last' = [Ran("logout") EXCEPT !.navigated = TRUE]
    /\ UNCHANGED <<pending, now, zone>>

SetBaseUrl(url) ==
    /\ state' = [state EXCEPT !.baseUrl = url]
    /\ last' = Ran("setBaseUrl")
    /\ UNCHANGED <<localStorage, location, pending, now, zone, hist>>

SetClientId(id) ==
    /\ state' = [state EXCEPT !.clientId = id]
    /\ last' = Ran("setClientId")
    /\ UNCHANGED <<localStorage, location, pending, now, zone, hist>>

SetLoginPageUrl(url) ==
    /\ state' = [state EXCEPT !.loginPageUrl = url]
    /\ last' = Ran("setLoginPageUrl")
    /\ UNCHANGED <<localStorage, location, pending, now, zone, hist>>

SetCallbackPageUrl(url) ==
    /\ state' = [state EXCEPT !.callbackPageUrl = url]
    /\ last' = Ran("setCallbackPageUrl")
    /\ UNCHANGED <<localStorage, location, pending, now, zone, hist>>

SetLoadingMe(loading) ==
    /\ state' = [state EXCEPT !.loadingMe = loading]
    /\ last' = [Ran("setLoadingMe") EXCEPT !.force = loading]
    /\ UNCHANGED <<localStorage, location, pending, now, zone, hist>>

\* userResources[resource]: a property lookup, own or inherited
Lookup(userResources, resource) ==
    resource \in userResources \/ resource \in ObjectPrototypeKeys

hasRequiredResources(user, resources) ==
    IF ~UserPresent(user) THEN FALSE
    ELSE \A resource \in resources : Lookup(user.resources, resource)

HasRequiredResources(resources) ==
    /\ last' = [Ran("hasRequiredResources") EXCEPT
                   !.keys = resources,
                   !.result = hasRequiredResources(state.user, resources)]
    /\ UNCHANGED <<state, localStorage, location, pending, now, zone, hist>>

(***************************************************************************)
(* login() and generatePKCECodes(), fetch(url, init).                      *)
(***************************************************************************)
\* new Uint8Array(32)
ArrayLength == 32
\* crypto.getRandomValues(array): three of the values it can produce
RandomArrays ==
    {[i \in 1..ArrayLength |-> 0],
     [i \in 1..ArrayLength |-> IF i % 2 = 1 THEN 251 ELSE 255],
     [i \in 1..ArrayLength |-> i]}

\* the alphabet of btoa; the first 62 characters are the letters and digits
Base64Alphabet ==
    <<"A", "B", "C", "D", "E", "F", "G", "H", "I", "J", "K", "L", "M">> \o
    <<"N", "O", "P", "Q", "R", "S", "T", "U", "V", "W", "X", "Y", "Z">> \o
    <<"a", "b", "c", "d", "e", "f", "g", "h", "i", "j", "k", "l", "m">> \o
    <<"n", "o", "p", "q", "r", "s", "t", "u", "v", "w", "x", "y", "z">> \o
    <<"0", "1", "2", "3", "4", "5", "6", "7", "8", "9", "+", "/">>
\* btoa(String.fromCharCode(...bytes)): three bytes give four characters of
\* six bits each, and an incomplete last group is filled up with "="
btoa(bytes) ==
    LET n == Len(bytes)
        Byte(i) == IF i <= n THEN bytes[i] ELSE 0
        Group(g) == Byte(3 * g + 1) * 65536 + Byte(3 * g + 2) * 256 + Byte(3 * g + 3)
        Sextet(g, k) == (Group(g) \div (64 ^ (3 - k))) % 64
        Char(j) == LET g == (j - 1) \div 4
                       k == (j - 1) % 4
                   IN IF 3 * g + k > n THEN "=" ELSE Base64Alphabet[Sextet(g, k) + 1]
    IN [j \in 1..(4 * ((n + 2) \div 3)) |-> Char(j)]
\* String.prototype.replace with a global pattern of one character
ReplaceAll(str, from, to) ==
    [i \in 1..Len(str) |-> IF str[i] = from THEN to ELSE str[i]]
\* .replace(/=+$/, "")
RECURSIVE StripPadding(_)
StripPadding(str) ==
    IF Len(str) > 0 /\ str[Len(str)] = "="
    THEN StripPadding(SubSeq(str, 1, Len(str) - 1))
    ELSE str
\* the padding kept
base64URLEncode_Padded(str) ==
    ReplaceAll(ReplaceAll(btoa(str), "+", "-"), "/", "_")

base64URLEncode(str) ==
    StripPadding(ReplaceAll(ReplaceAll(btoa(str), "+", "-"), "/", "_"))
generatePKCECodes(array) ==
    [code_challenge |-> base64URLEncode(array), code_challenge_method |-> "S256"]

\* URLSearchParams.toString(): letters, digits and * - . _ are kept, a space
\* becomes +, any other character its percent-encoded byte
Unreserved ==
    {Base64Alphabet[i] : i \in 1..62} \cup {"*", "-", ".", "_"}
PercentEncoded(c) ==
    CASE c = " " -> <<"+">>
      [] c = ":" -> <<"%", "3", "A">>
      [] c = "/" -> <<"%", "2", "F">>
      [] c = "+" -> <<"%", "2", "B">>
      [] c = "=" -> <<"%", "3", "D">>
      [] c = "%" -> <<"%", "2", "5">>
      [] c = "?" -> <<"%", "3", "F">>
      [] c = "&" -> <<"%", "2", "6">>
RECURSIVE URLEncoded(_)
URLEncoded(str) ==
    IF str = <<>> THEN <<>>
    ELSE (IF Head(str) \in Unreserved THEN <<Head(str)>> ELSE PercentEncoded(Head(str)))
         \o URLEncoded(Tail(str))

\* the token dropped on the way to the login page
Login_DropsToken(array) ==
    /\ LET codes == generatePKCECodes(array)
       IN location' =
             [pathname |-> state.baseUrl \o "/auth/v1/login",
              client_id |-> state.clientId,
              redirect_url |-> URLEncoded(state.callbackPageUrl),
              code_challenge |-> URLEncoded(codes.code_challenge),
              code_challenge_method |-> codes.code_challenge_method]
    /\ state' = [state EXCEPT !.token = ""]
    /\ last' = [Ran("login") EXCEPT !.navigated = TRUE]
    /\ UNCHANGED <<localStorage, pending, now, zone, hist>>

Login(array) ==
    /\ LET codes == generatePKCECodes(array)
       IN location' =
             [pathname |-> state.baseUrl \o "/auth/v1/login",
              client_id |-> state.clientId,
              redirect_url |-> URLEncoded(state.callbackPageUrl),
              code_challenge |-> URLEncoded(codes.code_challenge),
              code_challenge_method |-> codes.code_challenge_method]
    /\ last' = [Ran("login") EXCEPT !.navigated = TRUE]
    /\ UNCHANGED <<state, localStorage, pending, now, zone, hist>>

Fetch ==
    /\ CanSend
    /\ pending' = Add(Request("fetch", FALSE, Bearer(state.token)))
    /\ last' = [Ran("fetch") EXCEPT !.sent = 1, !.outcome = "sent",
                                    !.token = Bearer(state.token)]
    /\ UNCHANGED <<state, localStorage, location, now, zone, hist>>

\* .then((response) => ...) of fetch; a rejected fetch() runs no callback
FetchThen(r, status) ==
    /\ r \in InFlight
    /\ r.kind = "fetch"
    /\ localStorage' = IF status = 401
                       THEN [localStorage EXCEPT !.loadedState = <<"false">>]
                       ELSE localStorage
    /\ location' = IF status = 401 THEN Page(state.loginPageUrl) ELSE location
    /\ pending' = Drop(r)
    /\ last' = [Ran("fetch.then") EXCEPT !.outcome = "resolved",
                                         !.status = status,
                                         !.navigated = (status = 401)]
    /\ UNCHANGED <<state, now, zone, hist>>

FetchRejected(r) ==
    /\ r \in InFlight
    /\ r.kind = "fetch"
    /\ pending' = Drop(r)
    /\ last' = [Ran("fetch.rejected") EXCEPT !.outcome = "rejected"]
    /\ UNCHANGED <<state, localStorage, location, now, zone, hist>>

(***************************************************************************)
(* The page is loaded again: the module state is built from localStorage   *)
(* and the callbacks of the old page never run.                            *)
(***************************************************************************)
Reload ==
    /\ state' = InitialState(localStorage)
    /\ pending' = EmptyBag
    /\ hist' = [hist EXCEPT !.verifiedInProcess = FALSE]
    /\ last' = Ran("reload")
    /\ UNCHANGED <<localStorage, location, now, zone>>

Tick ==
    /\ now < MaxTime
    /\ now' = now + 1
    /\ last' = Ran("tick")
    /\ UNCHANGED <<state, localStorage, location, pending, zone, hist>>

Next ==
    \/ \E d \in BOOLEAN : DashboardMe(d)
    \/ Me
    \/ Verify
    \/ \E r \in InFlight, status \in Statuses : ProfileThenResponse(r, status)
    \/ \E r \in InFlight, status \in Statuses : VerifyThenResponse(r, status)
    \/ \E r \in InFlight : NetworkError(r)
    \/ \E r \in InFlight, body \in {"data", "nodata", "notjson"}, u \in Users :
          DashboardMeThenData(r, body, u)
    \/ \E r \in InFlight, body \in {"data", "nodata", "notjson"}, u \in Users :
          MeThenData(r, body, u)
    \/ \E r \in InFlight, body \in VerifyBodies, t \in Tokens : VerifyThenData(r, body, t)
    \/ Logout
    \/ SetBaseUrl(ApiBaseUrl)
    \/ SetClientId(ServerClientId)
    \/ SetLoginPageUrl(AltLoginPage)
    \/ SetCallbackPageUrl(AltCallback)
    \/ \E b \in BOOLEAN : SetLoadingMe(b)
    \/ \E ks \in SUBSET ResourceKeys : HasRequiredResources(ks)
    \/ \E array \in RandomArrays : Login(array)
    \/ Fetch
    \/ \E r \in InFlight, status \in Statuses : FetchThen(r, status)
    \/ \E r \in InFlight : FetchRejected(r)
    \/ Reload
    \/ Tick

Spec == Init /\ [][Next]_vars

(***************************************************************************)
(* Specifications of parts of the session.  Each takes the operations that *)
(* read or write the fields its properties are about and leaves the others *)
(* out: the setters of baseUrl, loginPageUrl and callbackPageUrl, login    *)
(* and fetch write no field that dashboardMe, me, verify or logout read in *)
(* a guard, and verify shares no field with the profile operations but     *)
(* the token sent in the Authorization header.                             *)
(*   SpecProfile    the cache: dashboardMe, me, logout, reload, the clock  *)
(*   SpecGuard      the loadingMe guard: the same with setLoadingMe        *)
(*   SpecResources  hasRequiredResources over the users the session holds  *)
(*   SpecVerify     verify, logout, reload                                 *)
(*   SpecLogout     logout while verify and dashboardMe are in flight      *)
(*   SpecLogin      login and the setters of what its URL is built from    *)
(*   SpecFetch      fetch with verify, logout and reload writing the token *)
(***************************************************************************)
NextProfile ==
    \/ \E d \in BOOLEAN : DashboardMe(d)
    \/ Me
    \/ \E r \in InFlight, status \in Statuses : ProfileThenResponse(r, status)
    \/ \E r \in InFlight : NetworkError(r)
    \/ \E r \in InFlight, body \in {"data", "nodata", "notjson"}, u \in Users :
          DashboardMeThenData(r, body, u)
    \/ \E r \in InFlight, body \in {"data", "nodata", "notjson"}, u \in Users :
          MeThenData(r, body, u)
    \/ Logout
    \/ Reload
    \/ Tick

SpecProfile == Init /\ [][NextProfile]_vars

NextGuard ==
    \/ \E d \in BOOLEAN : DashboardMe(d)
    \/ Me
    \/ \E r \in InFlight, status \in Statuses : ProfileThenResponse(r, status)
    \/ \E r \in InFlight : NetworkError(r)
    \/ \E r \in InFlight, body \in {"data", "nodata", "notjson"}, u \in Users :
          DashboardMeThenData(r, body, u)
    \/ \E r \in InFlight, body \in {"data", "nodata", "notjson"}, u \in Users :
          MeThenData(r, body, u)
    \/ Logout
    \/ \E b \in BOOLEAN : SetLoadingMe(b)

SpecGuard == Init /\ [][NextGuard]_vars

NextResources ==
    \/ \E d \in BOOLEAN : DashboardMe(d)
    \/ Me
    \/ \E r \in InFlight, status \in Statuses : ProfileThenResponse(r, status)
    \/ \E r \in InFlight, body \in {"data", "nodata", "notjson"}, u \in Users :
          DashboardMeThenData(r, body, u)
    \/ \E r \in InFlight, body \in {"data", "nodata", "notjson"}, u \in Users :
          MeThenData(r, body, u)
    \/ Logout
    \/ Reload
    \/ \E ks \in SUBSET ResourceKeys : HasRequiredResources(ks)

SpecResources == Init /\ [][NextResources]_vars

NextVerify ==
    \/ Verify
    \/ \E r \in InFlight, status \in Statuses : VerifyThenResponse(r, status)
    \/ \E r \in InFlight : NetworkError(r)
    \/ \E r \in InFlight, body \in VerifyBodies, t \in Tokens : VerifyThenData(r, body, t)
    \/ Logout
    \/ Reload
    \/ Tick

SpecVerify == Init /\ [][NextVerify]_vars

NextLogout ==
    \/ \E d \in BOOLEAN : DashboardMe(d)
    \/ Verify
    \/ \E r \in InFlight, status \in Statuses : ProfileThenResponse(r, status)
    \/ \E r \in InFlight, status \in Statuses : VerifyThenResponse(r, status)
    \/ \E r \in InFlight : NetworkError(r)
    \/ \E r \in InFlight, body \in {"data", "nodata", "notjson"}, u \in Users :
          DashboardMeThenData(r, body, u)
    \/ \E r \in InFlight, body \in VerifyBodies, t \in Tokens : VerifyThenData(r, body, t)
    \/ Logout
    \/ SetLoginPageUrl(AltLoginPage)

SpecLogout == Init /\ [][NextLogout]_vars

NextLogin ==
    \/ SetBaseUrl(ApiBaseUrl)
    \/ SetClientId(ServerClientId)
    \/ SetCallbackPageUrl(AltCallback)
    \/ \E array \in RandomArrays : Login(array)
    \/ Logout
    \/ Reload

SpecLogin == Init /\ [][NextLogin]_vars

NextFetch ==
    \/ Verify
    \/ \E r \in InFlight, status \in Statuses : VerifyThenResponse(r, status)
    \/ \E r \in InFlight : NetworkError(r)
    \/ \E r \in InFlight, body \in VerifyBodies, t \in Tokens : VerifyThenData(r, body, t)
    \/ Logout
    \/ Reload
    \/ Fetch
    \/ \E r \in InFlight, status \in Statuses : FetchThen(r, status)
    \/ \E r \in InFlight : FetchRejected(r)

SpecFetch == Init /\ [][NextFetch]_vars

(***************************************************************************)
(*   SpecSession       verify, dashboardMe, me, logout and a reload of     *)
(*                     the page                                            *)
(*   SpecLoginSession  login() called in a session that verify built       *)
(*   SpecSettle        every way a verify or profile fetch can settle      *)
(***************************************************************************)
NextSession ==
    \/ \E d \in BOOLEAN : DashboardMe(d)
    \/ Verify
    \/ \E r \in InFlight, status \in Statuses : ProfileThenResponse(r, status)
    \/ \E r \in InFlight, status \in Statuses : VerifyThenResponse(r, status)
    \/ \E r \in InFlight, body \in {"data", "nodata", "notjson"}, u \in Users :
          DashboardMeThenData(r, body, u)
    \/ \E r \in InFlight, body \in VerifyBodies, t \in Tokens : VerifyThenData(r, body, t)
    \/ Me
    \/ \E r \in InFlight, body \in {"data", "nodata", "notjson"}, u \in Users :
          MeThenData(r, body, u)
    \/ Logout
    \/ Reload

\* the clock stands still in this specification, so one zone is enough
InitSession == Init /\ zone = "fixed"

SpecSession == InitSession /\ [][NextSession]_vars

NextLoginSession ==
    \/ Verify
    \/ \E r \in InFlight, status \in Statuses : VerifyThenResponse(r, status)
    \/ \E r \in InFlight, body \in VerifyBodies, t \in Tokens : VerifyThenData(r, body, t)
    \/ Me
    \/ \E r \in InFlight, status \in Statuses : ProfileThenResponse(r, status)
    \/ \E r \in InFlight, body \in {"data", "nodata", "notjson"}, u \in Users :
          MeThenData(r, body, u)
    \/ \E array \in RandomArrays : Login(array)

SpecLoginSession == Init /\ [][NextLoginSession]_vars

NextSettle ==
    \/ \E d \in BOOLEAN : DashboardMe(d)
    \/ Me
    \/ Verify
    \/ \E r \in InFlight, status \in Statuses : ProfileThenResponse(r, status)
    \/ \E r \in InFlight, status \in Statuses : VerifyThenResponse(r, status)
    \/ \E r \in InFlight : NetworkError(r)
    \/ \E r \in InFlight, body \in {"data", "nodata", "notjson"}, u \in Users :
          DashboardMeThenData(r, body, u)
    \/ \E r \in InFlight, body \in {"data", "nodata", "notjson"}, u \in Users :
          MeThenData(r, body, u)
    \/ \E r \in InFlight, body \in VerifyBodies, t \in Tokens : VerifyThenData(r, body, t)
    \/ Reload

SpecSettle == InitSession /\ [][NextSettle]_vars

(***************************************************************************)
(* The context-based SDK: GoIamClient (client.ts), GoIamProvider           *)
(* (context.tsx) and AuthGuard (AuthGuard.tsx).  It shares the browser     *)
(* with the hookstate store but none of its fields: in the specifications  *)
(* of this part state is the AuthState of the provider, localStorage has   *)
(* the one key goiam_user, hist holds the configuration of the provider    *)
(* and whether its mount effect is due, and now counts milliseconds.       *)
(***************************************************************************)
NULL == <<>>

\* user values of this SDK: roles is a Record as types.ts declares it, or an
\* array as the tests of the client and the README have it
NoRoles == [shape |-> "array", keys |-> {}]
NullProfile == [tag |-> "null", name |-> UNDEF, roles |-> NoRoles, resources |-> {}]
Carol == [tag |-> "obj", name |-> "carol",
          roles |-> [shape |-> "record", keys |-> {"admin"}], resources |-> {"admin"}]
Dave == [tag |-> "obj", name |-> "dave",
         roles |-> [shape |-> "array", keys |-> {"user"}], resources |-> {"user"}]
Erin == [tag |-> "obj", name |-> UNDEF,
         roles |-> [shape |-> "array", keys |-> {"admin", "user"}],
         resources |-> {"admin", "user"}]
Profiles == {Carol, Dave, Erin}

\* JSON.stringify(user): a property whose value is undefined is left out
JSONstringifyUser(user) ==
    IF user.tag = "null" THEN <<"null">>
    ELSE <<"{", IF user.name = UNDEF THEN <<>> ELSE <<user.name>>,
           user.roles, user.resources, "}">>
\* JSON.parse(text): the value, or a SyntaxError
JSONparseUser(text) ==
    IF Len(text) = 5
    THEN [threw |-> FALSE,
          value |-> [tag |-> "obj",
                     name |-> IF text[2] = <<>> THEN UNDEF ELSE text[2][1],
                     roles |-> text[3],
                     resources |-> text[4]]]
    ELSE IF text[1] = "null" THEN [threw |-> FALSE, value |-> NullProfile]
    ELSE [threw |-> TRUE, value |-> NullProfile]

\* the configuration of the client: defaults of the constructor first
DefaultTimeout == 10000
ShortTimeout == 4000
CallbackUrl == Origin \o AltCallback
\* 'https://app.example.com/callback?param=value&other=test'
SpecialCallbackUrl ==
    CallbackUrl \o <<"?", "p", "=", "v", "&", "o", "=", "t">>
\* this.config = {storageKey: 'goiam_user', timeout: 10000, ...config} for
\* a config that carries a timeout (<<ms>>) or none (Absent)
Config(redirectUrl, timeout) ==
    [baseUrl |-> ApiBaseUrl, clientId |-> ServerClientId,
     redirectUrl |-> redirectUrl, storageKey |-> "goiam_user",
     timeout |-> IF timeout = Absent THEN DefaultTimeout ELSE timeout[1]]
Configs ==
    {Config(CallbackUrl, Absent), Config(SpecialCallbackUrl, <<ShortTimeout>>)}

\* what the key goiam_user can hold when the page is loaded
StoredTexts ==
    {Absent, <<<<"invalid-json">>>>} \cup {<<JSONstringifyUser(u)>> : u \in Profiles}

\* storeUser, getStoredUser, clearStoredUser as functions of the storage
storeUser(ls, user) == [ls EXCEPT !.goiam_user = <<JSONstringifyUser(user)>>]
getStoredUser(ls) ==
    IF ls.goiam_user = Absent THEN NullProfile
    ELSE JSONparseUser(ls.goiam_user[1]).value
\* removeItem left out
clearStoredUser_Kept(ls) == ls

clearStoredUser(ls) == [ls EXCEPT !.goiam_user = Absent]

\* getAuthUrl(): the URL as its path and its query parameters
getAuthUrl(config) ==
    [pathname |-> config.baseUrl \o "/auth/v1/login",
     client_id |-> config.clientId,
     redirect_url |-> URLEncoded(config.redirectUrl)]

(***************************************************************************)
(* AuthGuard(props) rendered with the context value ctx: what it returns   *)
(* and whether its effect calls login().                                   *)
(***************************************************************************)
Rendered(view, login) == [view |-> view, login |-> login]
\* the props a caller can pass; AuthGuard destructures requiredRoles
AuthGuardProps ==
    {props \in [redirectToLogin : BOOLEAN,
                requiredRoles : {{}, {"admin"}},
                requiredResources : {{}, {"admin"}}] :
        props.requiredRoles = {} \/ props.requiredResources = {}}

\* the unauthenticated branch after the role check
AuthGuard_ChildrenFirst(props, ctx) ==
    IF ctx.isLoading THEN Rendered("Checking authentication...", FALSE)
    ELSE IF ctx.isAuthenticated \/ ~props.redirectToLogin
    THEN Rendered("children", FALSE)
    ELSE Rendered("Redirecting to login...", TRUE)

AuthGuard(props, ctx) ==
    IF ctx.isLoading THEN Rendered("Checking authentication...", FALSE)
    ELSE IF ~ctx.isAuthenticated
    THEN IF props.redirectToLogin THEN Rendered("Redirecting to login...", TRUE)
         ELSE Rendered("FallbackComponent", FALSE)
    ELSE IF props.requiredRoles # {} /\ ctx.user.tag = "obj"
    THEN IF ctx.user.roles.shape # "array"
         THEN Rendered("TypeError: userRoles.includes is not a function", FALSE)
         ELSE IF ~(props.requiredRoles \subseteq ctx.user.roles.keys)
         THEN Rendered("UnauthorizedComponent", FALSE)
         ELSE Rendered("children", FALSE)
    ELSE Rendered("children", FALSE)

(***************************************************************************)
(* GoIamProvider and the calls of GoIamClient it makes.                    *)
(***************************************************************************)
\* useState<AuthState>({...}) and the three states setAuthState is given
InitialAuthState ==
    [isAuthenticated |-> FALSE, isLoading |-> TRUE, user |-> NullProfile, error |-> NULL]
\* isLoading left as it was at the start
Authenticated_StillLoading(user) ==
    [isAuthenticated |-> TRUE, isLoading |-> TRUE, user |-> user, error |-> NULL]
Authenticated(user) ==
    [isAuthenticated |-> TRUE, isLoading |-> FALSE, user |-> user, error |-> NULL]
Unauthenticated(error) ==
    [isAuthenticated |-> FALSE, isLoading |-> FALSE, user |-> NullProfile, error |-> error]

InitProvider ==
    /\ localStorage \in {[goiam_user |-> text] : text \in StoredTexts}
    /\ state = InitialAuthState
    /\ location = Page("/dashboard")
    /\ pending = EmptyBag
    /\ now = 0
    /\ zone = "fixed"
    /\ last = NoOp
    /\ hist \in {[config |-> config, effect |-> TRUE] : config \in Configs}

\* makeApiCall('/me/v1') up to the await of fetch: the request, with the
\* timer setTimeout(() => controller.abort(), this.config.timeout) armed
ApiCall(caller, stored) ==
    [kind |-> "/me/v1", caller |-> caller, stored |-> stored, stage |-> "sent",
     status |-> 0, timer |-> "armed", sentAt |-> now, timeout |-> hist.config.timeout]
Deadline(r) == r.sentAt + r.timeout
ApiCalls == {r \in InFlight : r.kind = "/me/v1"}

\* setAuthState(next): the provider renders again, and as it builds a new
\* GoIamClient in every render the effect with the dependency [client] is due
setAuthState(next) ==
    /\ state' = next
    /\ hist' = [hist EXCEPT !.effect = TRUE]

\* the effect of the provider: initializeAuth() up to its await
InitializeAuth ==
    /\ hist.effect
    /\ CanSend
    /\ LET storedUser == getStoredUser(localStorage)
       IN /\ pending' = Add(ApiCall(IF storedUser.tag = "obj"
                                    THEN "initializeAuth.stored"
                                    ELSE "initializeAuth", storedUser))
          /\ last' = [Ran("initializeAuth") EXCEPT !.sent = 1, !.value = storedUser]
    /\ hist' = [hist EXCEPT !.effect = FALSE]
    /\ UNCHANGED <<state, localStorage, location, now, zone>>

\* refreshUser() up to its await
RefreshUser ==
    /\ CanSend
    /\ setAuthState([state EXCEPT !.isLoading = TRUE, !.error = NULL])
    /\ pending' = Add(ApiCall("refreshUser", NullProfile))
    /\ last' = [Ran("refreshUser") EXCEPT !.sent = 1]
    /\ UNCHANGED <<localStorage, location, now, zone>>

\* client.fetchUserProfile() called by the application itself
FetchUserProfile ==
    /\ CanSend
    /\ pending' = Add(ApiCall("fetchUserProfile", NullProfile))
    /\ last' = [Ran("fetchUserProfile") EXCEPT !.sent = 1]
    /\ UNCHANGED <<state, localStorage, location, now, zone, hist>>

ProviderLogin ==
    /\ location' = getAuthUrl(hist.config)
    /\ last' = [Ran("provider.login") EXCEPT !.navigated = TRUE]
    /\ UNCHANGED <<state, localStorage, pending, now, zone, hist>>

\* logout that resets the flags and keeps the user
ProviderLogout_KeepsUser ==
    /\ localStorage' = clearStoredUser(localStorage)
    /\ setAuthState([state EXCEPT !.isAuthenticated = FALSE, !.isLoading = FALSE,
                                  !.error = NULL])
    /\ last' = Ran("provider.logout")
    /\ UNCHANGED <<location, pending, now, zone>>

ProviderLogout ==
    /\ localStorage' = clearStoredUser(localStorage)
    /\ setAuthState(Unauthenticated(NULL))
    /\ last' = Ran("provider.logout")
    /\ UNCHANGED <<location, pending, now, zone>>

\* new Error(`HTTP ${response.status}: ${response.statusText}`), the
\* AbortError of an aborted fetch, and the other errors of the call
HttpError(status, statusText) ==
    [name |-> "Error", message |-> <<"HTTP ", status, ": ", statusText>>]
AbortError == [name |-> "AbortError", message |-> <<"The operation was aborted">>]
OtherError(message) == [name |-> "Error", message |-> <<message>>]
\* response.statusText: the reason phrase, empty over HTTP/2
StatusTexts(status) ==
    {"", CASE status = 401 -> "Unauthorized"
           [] status = 500 -> "Internal Server Error"
           [] OTHER -> "OK"}

\* the message of the Error handleApiError returns;
\* /HTTP (\d+): (.+)/ needs at least one character after the colon
handleApiError(error) ==
    IF error.name = "AbortError" THEN <<"Request timeout">>
    ELSE IF Len(error.message) = 4 /\ error.message[4] # ""
    THEN <<error.message[4]>>
    ELSE error.message

\* the continuation of the caller after fetchUserProfile resolved with user
Resolved(r, user) ==
    /\ IF r.caller = "fetchUserProfile"
       THEN UNCHANGED <<state, localStorage, hist>>
       ELSE /\ localStorage' = storeUser(localStorage, user)
            /\ setAuthState(Authenticated(user))
    /\ pending' = Drop(r)
    /\ last' = [Ran(r.caller) EXCEPT !.outcome = "resolved", !.user = user,
                                     !.status = r.status, !.arg = r]

\* the failure of the fetch reported by initializeAuth
Rejected_Reported(r, error) ==
    /\ setAuthState(Unauthenticated(handleApiError(error)))
    /\ pending' = Drop(r)
    /\ localStorage' = localStorage
    /\ last' = [Ran(r.caller) EXCEPT !.outcome = "rejected",
                                     !.message = handleApiError(error),
                                     !.status = r.status, !.arg = r,
                                     !.value = error]

\* the continuation of the caller after fetchUserProfile threw
Rejected(r, error) ==
    /\ CASE r.caller = "initializeAuth.stored" -> setAuthState(Authenticated(r.stored))
         [] r.caller = "initializeAuth" -> setAuthState(Unauthenticated(NULL))
         [] r.caller = "refreshUser" -> setAuthState(Unauthenticated(handleApiError(error)))
         [] OTHER -> UNCHANGED <<state, hist>>
    /\ pending' = Drop(r)
    /\ localStorage' = localStorage
    /\ last' = [Ran(r.caller) EXCEPT !.outcome = "rejected",
                                     !.message = handleApiError(error),
                                     !.status = r.status, !.arg = r,
                                     !.value = error]

\* the timer kept armed
clearTimeout_Skipped(r) == r.timer

\* clearTimeout(timeoutId)
clearTimeout(r) == "cleared"

\* the await of fetch returns a response before the timer is due
ApiResponse(r, status, statusText) ==
    /\ r \in ApiCalls
    /\ r.stage = "sent"
    /\ now < Deadline(r)
    /\ statusText \in StatusTexts(status)
    /\ IF ~Ok(status)
       THEN Rejected(r, HttpError(status, statusText))
       ELSE /\ pending' = Drop(r) (+) SetToBag({[r EXCEPT !.stage = "json",
                                                          !.status = status,
                                                          !.timer = clearTimeout(r)]})
            /\ last' = [Ran("makeApiCall.response") EXCEPT !.status = status]
            /\ UNCHANGED <<state, localStorage, hist>>
    /\ UNCHANGED <<location, now, zone>>

\* the await of response.json() returns: the body is a user, or not JSON
ApiBody(r, body, user) ==
    /\ r \in ApiCalls
    /\ r.stage = "json"
    /\ IF body = "notjson" THEN Rejected(r, OtherError(NotJson)) ELSE Resolved(r, user)
    /\ UNCHANGED <<location, now, zone>>

\* fetch() is rejected by the network before the timer is due
ApiNetworkError(r) ==
    /\ r \in ApiCalls
    /\ r.stage = "sent"
    /\ now < Deadline(r)
    /\ Rejected(r, OtherError(FetchFailed))
    /\ UNCHANGED <<location, now, zone>>

\* the timer fires: controller.abort() rejects what the call awaits
ApiTimeout(r) ==
    /\ r \in ApiCalls
    /\ r.timer = "armed"
    /\ now >= Deadline(r)
    /\ Rejected(r, AbortError)
    /\ UNCHANGED <<location, now, zone>>

\* time passes, but not beyond the moment an armed timer is due
MaxClock == 12000
Elapse(ms) ==
    /\ now + ms <= MaxClock
    /\ \A r \in ApiCalls : r.timer = "armed" => now + ms <= Deadline(r)
    /\ now' = now + ms
    /\ last' = Ran("elapse")
    /\ UNCHANGED <<state, localStorage, location, pending, zone, hist>>

\* the application renders <AuthGuard {...props}> inside the provider, which
\* shows its LoadingComponent in place of its children while isLoading; the
\* effect of the redirect branch calls login()
Render(props) ==
    /\ LET rendered == IF state.isLoading THEN Rendered("LoadingComponent", FALSE)
                       ELSE AuthGuard(props, state)
       IN /\ last' = [Ran("AuthGuard") EXCEPT !.arg = props, !.value = rendered,
                                              !.navigated = rendered.login]
          /\ location' = IF rendered.login THEN getAuthUrl(hist.config) ELSE location
    /\ UNCHANGED <<state, localStorage, pending, now, zone, hist>>

\* the storage operations and getAuthUrl called by the application; the
\* record of getStoredUser keeps the name of the operation before it
StoreUser(user) ==
    /\ localStorage' = storeUser(localStorage, user)
    /\ last' = [Ran("storeUser") EXCEPT !.user = user]
    /\ UNCHANGED <<state, location, pending, now, zone, hist>>
GetStoredUser ==
    /\ last' = [Ran("getStoredUser") EXCEPT !.value = getStoredUser(localStorage),
                                            !.arg = last.op]
    /\ UNCHANGED <<state, localStorage, location, pending, now, zone, hist>>
ClearStoredUser ==
    /\ localStorage' = clearStoredUser(localStorage)
    /\ last' = Ran("clearStoredUser")
    /\ UNCHANGED <<state, location, pending, now, zone, hist>>
GetAuthUrl ==
    /\ last' = [Ran("getAuthUrl") EXCEPT !.value = getAuthUrl(hist.config)]
    /\ UNCHANGED <<state, localStorage, location, pending, now, zone, hist>>

(***************************************************************************)
(* Specifications of the context-based SDK.                                *)
(*   SpecAuthGuard   the provider with an AuthGuard rendered inside it     *)
(*   SpecProvider    the provider: its effect, refreshUser, login, logout  *)
(*   SpecClient      GoIamClient called directly: fetchUserProfile with    *)
(*                   its timer, getAuthUrl, the storage operations         *)
(***************************************************************************)
NextAuthGuard ==
    \/ InitializeAuth
    \/ \E r \in InFlight, status \in Statuses : \E statusText \in StatusTexts(status) :
          ApiResponse(r, status, statusText)
    \/ \E r \in InFlight, body \in {"user", "notjson"}, user \in Profiles :
          ApiBody(r, body, user)
    \/ RefreshUser
    \/ \E props \in AuthGuardProps : Render(props)

SpecAuthGuard == InitProvider /\ [][NextAuthGuard]_vars

NextProvider ==
    \/ InitializeAuth
    \/ \E r \in InFlight, status \in Statuses : \E statusText \in StatusTexts(status) :
          ApiResponse(r, status, statusText)
    \/ \E r \in InFlight, body \in {"user", "notjson"}, user \in Profiles :
          ApiBody(r, body, user)
    \/ \E r \in InFlight : ApiNetworkError(r)
    \/ RefreshUser
    \/ ProviderLogin
    \/ ProviderLogout

SpecProvider == InitProvider /\ [][NextProvider]_vars

NextClient ==
    \/ FetchUserProfile
    \/ \E r \in InFlight, status \in Statuses : \E statusText \in StatusTexts(status) :
          ApiResponse(r, status, statusText)
    \/ \E r \in InFlight, body \in {"user", "notjson"}, user \in Profiles :
          ApiBody(r, body, user)
    \/ \E r \in InFlight : ApiNetworkError(r)
    \/ \E r \in InFlight : ApiTimeout(r)
    \/ \E ms \in {2000} : Elapse(ms)
    \/ GetAuthUrl
    \/ \E user \in Profiles : StoreUser(user)
    \/ GetStoredUser
    \/ ClearStoredUser

SpecClient == InitProvider /\ [][NextClient]_vars

(***************************************************************************)
(* The Go client (golang/service.go): Verify, Me, CreateResource and       *)
(* DeleteResource are functions of the response the server gives.  In the  *)
(* specification of this part state is the service NewService built, last  *)
(* records the call made, the response and what the call returned, and     *)
(* the other variables stand still.                                        *)
(***************************************************************************)
\* a nil error and a nil pointer
nil == <<>>
\* resp.Status
Status(status) ==
    CASE status = 200 -> "200 OK"
      [] status = 401 -> "401 Unauthorized"
      [] OTHER -> "500 Internal Server Error"
\* a body is not JSON, or a JSON object in which each of success, message
\* and data may be missing (<<>>); data may also be null
JsonBodies ==
    [decodable : {TRUE},
     success : {<<>>, <<TRUE>>, <<FALSE>>},
     message : {<<>>, <<"Invalid code">>},
     data : {"missing", "null", "object"}]
NotJsonBody ==
    [decodable |-> FALSE, success |-> <<>>, message |-> <<>>, data |-> "missing"]
\* what http.DefaultClient.Do returns: an error, or a response
Responses ==
    [failed : {FALSE}, status : Statuses, body : JsonBodies \cup {NotJsonBody}]
        \cup {[failed |-> TRUE, status |-> 200, body |-> NotJsonBody]}
\* json.NewDecoder(resp.Body).Decode(&result): a missing field keeps the
\* zero value of the struct, a missing or null data the nil pointer
Decode(body) ==
    [Success |-> IF body.success = <<>> THEN FALSE ELSE body.success[1],
     Message |-> IF body.message = <<>> THEN "" ELSE body.message[1],
     Data |-> IF body.data = "object" THEN <<"test-token">> ELSE nil]

\* what a call gives back: a value and an error, or a panic of the goroutine
Returned(value, err) == [value |-> value, err |-> err, panic |-> FALSE]
Panicked == [value |-> nil, err |-> nil, panic |-> TRUE]

\* the part the four methods share: the request, the status error, the
\* decoding and the test of Success; failure is the prefix of the method's
\* error, and the result is nil when the method goes on to its return
Exchange(resp, statusPrefix, failure) ==
    IF resp.failed THEN <<"error making request: ", "dial error">>
    ELSE LET statusError == IF resp.status # 200
                            THEN <<statusPrefix, Status(resp.status)>>
                            ELSE nil
         IN IF ~resp.body.decodable
            THEN IF statusError # nil
                 THEN statusError \o <<": ", "invalid character">>
                 ELSE <<"error decoding response: ", "invalid character">>
            ELSE IF ~Decode(resp.body).Success
            THEN <<failure, Decode(resp.body).Message, ". Status: ", Status(resp.status)>>
            ELSE nil

\* return result.Data.AccessToken, nil: the field of a nil pointer panics
serviceImplVerify(resp) ==
    LET err == Exchange(resp, "failed to verify code: ", "failed to verify code: ")
    IN IF err # nil THEN Returned(<<"">>, err)
       ELSE IF Decode(resp.body).Data = nil THEN Panicked
       ELSE Returned(Decode(resp.body).Data, nil)

\* return user.Data, nil: the pointer itself, nil or not
serviceImplMe(resp) ==
    LET err == Exchange(resp, "failed to fetch user information: ",
                        "failed to fetch user information: ")
    IN IF err # nil THEN Returned(nil, err)
       ELSE Returned(Decode(resp.body).Data, nil)

serviceImplCreateResource(resp) ==
    Returned(nil, Exchange(resp, "failed to fetch user information: ",
                           "failed to create resource: "))

serviceImplDeleteResource(resp) ==
    Returned(nil, Exchange(resp, "failed to delete resource: ",
                           "failed to delete resource: "))

\* NewService(baseURL, clientID, secret)
InitService ==
    /\ state = [baseURL |-> ApiBaseUrl, clientID |-> "client-id", secret |-> "secret"]
    /\ localStorage = <<>>
    /\ location = <<>>
    /\ pending = EmptyBag
    /\ now = 0
    /\ zone = "fixed"
    /\ last = NoOp
    /\ hist = <<>>

Called(method, resp, result) ==
    /\ last' = [Ran(method) EXCEPT !.arg = resp, !.value = result]
    /\ UNCHANGED <<state, localStorage, location, pending, now, zone, hist>>

GoVerify(resp) == Called("Verify", resp, serviceImplVerify(resp))
GoMe(resp) == Called("Me", resp, serviceImplMe(resp))
GoCreateResource(resp) == Called("CreateResource", resp, serviceImplCreateResource(resp))
GoDeleteResource(resp) == Called("DeleteResource", resp, serviceImplDeleteResource(resp))

NextService ==
    \/ \E resp \in Responses : GoVerify(resp)
    \/ \E resp \in Responses : GoMe(resp)
    \/ \E resp \in Responses : GoCreateResource(resp)
    \/ \E resp \in Responses : GoDeleteResource(resp)

SpecService == InitService /\ [][NextService]_vars

(***************************************************************************)
(* Observations used by the properties.                                    *)
(***************************************************************************)
\* the number of requests of the given kinds in flight
Outstanding(kinds) ==
    LET S == {r \in InFlight : r.kind \in kinds}
    IN BagCardinality([r \in S |-> pending[r]])
CacheAgeKnown == ~IsNaNDate(state.localStoreUpdatedAt)
CacheAge == now - getTime(state.localStoreUpdatedAt)
\* the step is a call dashboardMe(force)
Calls(force) == last'.op = "dashboardMe" /\ last'.force = force

(***************************************************************************)
(* Properties.                                                             *)
(***************************************************************************)

\* C1: when the cache is younger than 5 minutes, dashboardMe(false) sends no
\* request and leaves user and localStoreUpdatedAt as they were, in memory
\* and in localStorage.
C1_FreshCacheSkipsFetch ==
    [][(Calls(FALSE) /\ CacheAgeKnown /\ CacheAge < CacheTTL)
         => /\ pending' = pending
            /\ state'.user = state.user
            /\ state'.localStoreUpdatedAt = state.localStoreUpdatedAt
            /\ localStorage' = localStorage]_vars

C1_Witness ==
    /\ last.op = "dashboardMe" /\ ~last.force /\ last.outcome = "cached"
    /\ UserPresent(state.user)
    /\ CacheAgeKnown /\ CacheAge < CacheTTL /\ CacheAge > 0

\* C2 as stated: when the cache is 5 minutes old or older, dashboardMe(false)
\* sends exactly one request to the profile endpoint, in every state.
C2_StaleCacheAlwaysFetches ==
    [][(Calls(FALSE) /\ CacheAgeKnown /\ CacheAge >= CacheTTL)
         => Outstanding(ProfileKinds)' = Outstanding(ProfileKinds) + 1]_vars

\* C2 amended: when the cache is 5 minutes old or older, dashboardMe(false)
\* sends exactly one request to the dashboard endpoint if loadingMe is false,
\* and none if loadingMe is true.
C2_StaleCacheFetchesUnlessLoading ==
    [][(Calls(FALSE) /\ CacheAgeKnown /\ CacheAge >= CacheTTL)
         => /\ Outstanding({"dashboard"})' =
                 Outstanding({"dashboard"}) + (IF state.loadingMe THEN 0 ELSE 1)
            /\ BagCardinality(pending') =
                 BagCardinality(pending) + (IF state.loadingMe THEN 0 ELSE 1)]_vars

C2_Witness ==
    /\ last.op = "dashboardMe" /\ ~last.force /\ last.outcome = "sent"
    /\ CacheAgeKnown /\ CacheAge >= CacheTTL
    /\ UserPresent(state.user)

\* C3 as stated: dashboardMe(true) sends a request whatever the cache age
\* and whatever the state of the session.
C3_ForcedRefreshAlwaysFetches ==
    [][Calls(TRUE)
         => Outstanding(ProfileKinds)' = Outstanding(ProfileKinds) + 1]_vars

\* C3 amended: dashboardMe(true) sends one request whatever the cache age if
\* loadingMe is false, and none if loadingMe is true.
C3_ForcedRefreshFetchesUnlessLoading ==
    [][Calls(TRUE)
         => /\ Outstanding({"dashboard"})' =
                 Outstanding({"dashboard"}) + (IF state.loadingMe THEN 0 ELSE 1)
            /\ BagCardinality(pending') =
                 BagCardinality(pending) + (IF state.loadingMe THEN 0 ELSE 1)]_vars

C3_Witness ==
    /\ last.op = "dashboardMe" /\ last.force /\ last.outcome = "sent"
    /\ CacheAgeKnown /\ CacheAge < CacheTTL

\* C4: a verify called while a verify request is in flight sends nothing and
\* changes neither the store, localStorage nor the location; at most one
\* verify request is ever in flight.
C4_OverlappingVerifySuppressed ==
    [][/\ Outstanding({"verify"})' <= 1
       /\ (last'.op = "verify" /\ VerifyFetches # {})
            => UNCHANGED <<state, localStorage, location, pending>>]_vars

C4_Witness ==
    /\ last.op = "verify" /\ last.outcome = "ignored"
    /\ Outstanding({"verify"}) = 1

\* C5 as stated: at most one profile request (of dashboardMe or me) is in
\* flight at any moment, setLoadingMe included among the operations.
C5_OneProfileFetchAtATime == Outstanding(ProfileKinds) <= 1

\* C6 as stated: logout leaves token and user cleared, and a dashboardMe(false)
\* that is the very next operation after logout sends a request.
C6_RefreshAfterLogoutFetches ==
    [][/\ last'.op = "logout" => (state'.token = "" /\ ~UserPresent(state'.user))
       /\ (last.op = "logout" /\ Calls(FALSE))
            => Outstanding(ProfileKinds)' = Outstanding(ProfileKinds) + 1]_vars

\* C7 as stated: token is non-empty exactly when a verify has succeeded since
\* the last logout, or since the start of the process if there was none.
C7_TokenIffVerifiedInProcess == Truthy(state.token) <=> hist.verifiedInProcess

\* C7 amended: token is non-empty exactly when a verify has succeeded since
\* the last logout, a verify of an earlier page load included (its token is
\* read back from localStorage when the store is created).
C7_TokenIffVerifiedSinceLogout == Truthy(state.token) <=> hist.verifiedSinceLogout

C7_Witness ==
    /\ last.op = "reload"
    /\ Truthy(state.token)
    /\ hist.verifiedSinceLogout /\ ~hist.verifiedInProcess

\* C8 as stated: localStoreUpdatedAt is set exactly when user is populated.
C8_TimestampIffUser == CacheAgeKnown <=> UserPresent(state.user)

\* C8 amended: localStoreUpdatedAt is set exactly when logout has run or the
\* data handler of a dashboardMe(false) has run; user may be populated
\* without it (me, dashboardMe(true)) and absent with it (logout).
C8_TimestampIffStamped == CacheAgeKnown <=> hist.stamped

C8_Witness ==
    /\ last.op = "me.data"
    /\ UserPresent(state.user)
    /\ ~CacheAgeKnown /\ ~hist.stamped

\* C9 as stated: hasRequiredResources(keys) is true exactly when a user is
\* present and every key of keys is a key of user.resources.
C9_ResourcesIffAllKeysPresent ==
    last.op = "hasRequiredResources"
      => (last.result <=> (UserPresent(state.user) /\ last.keys \subseteq state.user.resources))

\* C10: when the data handler of verify has run on a success envelope with
\* access_token t, token is t in memory and in localStorage, verified is
\* true and verifying is false.
C10_VerifySuccessStoresToken ==
    last.op = "verify.data"
      => /\ state.token = last.token
         /\ localStorage.access_token = <<last.token>>
         /\ state.verified
         /\ ~state.verifying

C10_Witness ==
    /\ last.op = "verify.data"
    /\ last.token = "tok-1"
    /\ state.token = "tok-1"

\* the messages a failed verify can be rejected with: the message of the
\* failure envelope or its default, or that of the error fetch, response.json
\* or the data handler threw
VerifyFailures ==
    (ServerMessages \ {""}) \cup {VerifyFailed, FetchFailed, NotJson, NullData}

\* C11: when verify fails (failure envelope, network error, unreadable body)
\* the promise is rejected with "Failed to verify the code: " and the message
\* of the failure, no step of the failing call writes token or verified, in
\* memory or in localStorage, and the catch handler leaves verifying false.
C11_VerifyFailureRejects ==
    [][/\ last'.op = "verify.catch"
            => /\ last'.outcome = "rejected"
               /\ last'.message[1] = "Failed to verify the code: "
               /\ last'.message[2] \in VerifyFailures
               /\ ~state'.verifying
       /\ last'.op \in {"verify", "verify.then", "verify.catch"}
            => /\ state'.token = state.token
               /\ state'.verified = state.verified
               /\ localStorage'.access_token = localStorage.access_token]_vars

C11_Witness ==
    /\ last.op = "verify.catch"
    /\ last.message = Template("Failed to verify the code: ", "invalid code")
    /\ state.token = "tok-1" /\ state.verified
    /\ ~state.verifying

\* C12: when the first handler of a profile fetch (dashboardMe or me) sees
\* status 401 it navigates to the login page if and only if the path of the
\* current location is not the login page; otherwise the location stays.
C12_UnauthorizedRedirects ==
    [][(last'.op \in {"dashboardMe.then", "me.then"} /\ last'.status = 401)
         => /\ last'.navigated <=> (location.pathname # state.loginPageUrl)
            /\ last'.navigated => location' = Page(state.loginPageUrl)
            /\ ~last'.navigated => location' = location]_vars

\* a forced dashboardMe started at /dashboard has settled after a 401, and
\* nothing else (no logout) has moved the location
C12_Witness ==
    /\ last.op = "dashboardMe.data" /\ last.force /\ last.status = 401
    /\ ~hist.stamped
    /\ state.loginPageUrl = "/login"
    /\ location = Page("/login")

\* C13 as stated: the promise of dashboardMe, me or fetch is never rejected
\* when the server has answered 401.
C13_UnauthorizedNeverRejects == ~(last.outcome = "rejected" /\ last.status = 401)

\* C14: when a profile fetch gets a status that is neither 2xx nor 401, or
\* fetch itself fails, the promise is rejected, neither the call nor the catch
\* handler writes user or localStoreUpdatedAt, in memory or in localStorage,
\* and the catch handler leaves loadingMe false.
C14_ProfileFailureRejects ==
    [][/\ (last'.op \in {"dashboardMe.catch", "me.catch"}
             /\ last'.message[2] \in {NotOk, FetchFailed})
            => /\ last'.outcome = "rejected"
               /\ ~state'.loadingMe
       /\ (\/ last'.op \in {"dashboardMe.catch", "me.catch"}
           \/ last'.op \in {"dashboardMe", "me"} /\ last'.outcome = "sent")
            => /\ state'.user = state.user
               /\ state'.localStoreUpdatedAt = state.localStoreUpdatedAt
               /\ localStorage'.user = localStorage.user
               /\ localStorage'.localStoreUpdatedAt = localStorage.localStoreUpdatedAt]_vars

C14_Witness ==
    /\ last.op = "me.catch"
    /\ last.message = Template("Failed to fetch auth info: ", NotOk)
    /\ UserPresent(state.user) /\ localStorage.user # Absent
    /\ CacheAgeKnown
    /\ ~state.loadingMe

\* the data handler of a profile fetch has just run on an envelope with a profile
Succeeded(ops) == last.op \in ops /\ last.outcome = "data"
UserStored == localStorage.user # Absent /\ JSONparse(localStorage.user[1]) = state.user
StampedNow ==
    /\ state.localStoreUpdatedAt = toISOString(now)
    /\ localStorage.localStoreUpdatedAt = <<toISOString(now)>>

\* C15 as stated: after every successful dashboardMe, forced or not, user is
\* the fetched profile and localStoreUpdatedAt the time of the success, in
\* memory and in localStorage.
C15_SuccessAlwaysStamps ==
    Succeeded({"dashboardMe.data"})
      => /\ state.user = last.user
         /\ UserStored
         /\ StampedNow

\* C15 amended: after every successful dashboardMe or me, user is the fetched
\* profile in memory and in localStorage; a dashboardMe that is not forced
\* also sets localStoreUpdatedAt to the time of the success in both, while a
\* forced one and me leave localStoreUpdatedAt as it was in both.
C15_SuccessStampsUnlessForced ==
    [][Succeeded({"dashboardMe.data", "me.data"})'
         => /\ state'.user = last'.user
            /\ UserStored'
            /\ IF last'.op = "dashboardMe.data" /\ ~last'.force
               THEN StampedNow'
               ELSE /\ state'.localStoreUpdatedAt = state.localStoreUpdatedAt
                    /\ localStorage'.localStoreUpdatedAt =
                          localStorage.localStoreUpdatedAt]_vars

C15_Witness ==
    /\ Succeeded({"dashboardMe.data"}) /\ last.force
    /\ state.user = Bob /\ UserStored
    /\ CacheAgeKnown /\ CacheAge > 0

\* C16: logout can be called in every state, requests in flight or not, and
\* is one synchronous step after which token is empty, user undefined and
\* verified false in memory, the keys access_token and user are absent from
\* localStorage, and the location is the login page; the requests in flight
\* stay in flight.
C16_LogoutClearsSession ==
    /\ []ENABLED Logout
    /\ [][last'.op = "logout"
            => /\ state'.token = ""
               /\ state'.user = UndefinedUser
               /\ ~state'.verified
               /\ localStorage'.access_token = Absent
               /\ localStorage'.user = Absent
               /\ last'.navigated
               /\ location' = Page(state.loginPageUrl)
               /\ pending' = pending]_vars

\* logout has run with a session (the dashboard request in flight was sent
\* with its token) while a verify and a dashboardMe were in flight
C16_Witness ==
    /\ last.op = "logout"
    /\ \E r \in InFlight : r.kind = "dashboard" /\ r.auth = "tok-1"
    /\ \E r \in InFlight : r.kind = "verify"
    /\ state.verifying /\ state.loadingMe
    /\ location = Page(AltLoginPage)

\* C17 as stated: login writes the PKCE value that verify needs into
\* localStorage before it navigates: some key holds, after login, a value it
\* did not hold before, and that value is the one sent as code_challenge.
C17_LoginPersistsVerifier ==
    [][last'.op = "login"
         => \E k \in DOMAIN localStorage :
               /\ localStorage'[k] # localStorage[k]
               /\ localStorage'[k] # Absent
               /\ location'.code_challenge = URLEncoded(localStorage'[k][1])]_vars

\* C18 as stated: the code_challenge login sends is the base64url text of a
\* hash of the random bytes, and not the base64url text of the bytes.  The
\* hash is abstract: 32 bytes that differ from its argument.
C18_ChallengeIsHashOfVerifier ==
    LET SHA256(array) == [i \in 1..ArrayLength |-> (array[i] * 7 + 3 * i + 1) % 256]
    IN last.op = "login"
         => \E array \in RandomArrays :
               /\ location.code_challenge = URLEncoded(base64URLEncode(SHA256(array)))
               /\ location.code_challenge # URLEncoded(base64URLEncode(array))

\* the characters of the base64url alphabet
Base64UrlChars == {Base64Alphabet[i] : i \in 1..62} \cup {"-", "_"}

\* C19: login navigates to baseUrl/auth/v1/login with exactly the parameters
\* client_id = clientId, redirect_url = the percent-encoded callbackPageUrl
\* ("%2Fcallback" for "/callback"), code_challenge = 43 characters of the
\* base64url alphabet without padding, code_challenge_method = "S256".
C19_LoginUrl ==
    last.op = "login"
      => /\ DOMAIN location = {"pathname", "client_id", "redirect_url",
                               "code_challenge", "code_challenge_method"}
         /\ location.pathname = state.baseUrl \o "/auth/v1/login"
         /\ location.client_id = state.clientId
         /\ location.redirect_url = URLEncoded(state.callbackPageUrl)
         /\ \A i \in 1..Len(location.redirect_url) :
               location.redirect_url[i] \in Unreserved \cup {"%"}
         /\ state.callbackPageUrl = <<"/", "c", "a", "l", "l", "b", "a", "c", "k">>
              => location.redirect_url =
                    <<"%", "2", "F", "c", "a", "l", "l", "b", "a", "c", "k">>
         /\ Len(location.code_challenge) = 43
         /\ \A i \in 1..Len(location.code_challenge) :
               location.code_challenge[i] \in Base64UrlChars
         /\ location.code_challenge_method = "S256"

\* the login of the scenario: base URL, client and callback set, and random
\* bytes whose encoding needs both replaced characters
C19_Witness ==
    /\ last.op = "login"
    /\ location.pathname = "https://api.example.com/auth/v1/login"
    /\ location.client_id = ServerClientId
    /\ state.callbackPageUrl = AltCallback
    /\ location.code_challenge[1] = "-" /\ location.code_challenge[2] = "_"

C21_FetchRedirectsLikeProfile ==
    [][(last'.op = "fetch.then" /\ last'.status = 401)
         => /\ last'.navigated <=> (location.pathname # state.loginPageUrl)
            /\ last'.navigated => location' = Page(state.loginPageUrl)
            /\ ~last'.navigated => location' = location]_vars

\* C22 as stated: once the catch handler of verify, dashboardMe or me has
\* run, the err field of the store holds a non-empty message.
C22_ErrSetOnFailure ==
    (last.op \in {"verify.catch", "dashboardMe.catch", "me.catch"}
       /\ last.outcome = "rejected")
      => state.err # ""


\* the guard has just been rendered for a session that holds a user
GuardRendered == last.op = "AuthGuard" /\ ~state.isLoading
ProfilePresent == state.user.tag = "obj"
RequirementMet == last.arg.requiredResources \subseteq state.user.resources

\* C23: AuthGuard renders the Unauthorized outcome exactly when a user is
\* present and lacks one of the configured required resources, and its
\* children exactly when a user is present and has all of them.
\* The code reads the property requiredRoles, not requiredResources, so this
\* is violated: a guard configured with requiredResources renders its
\* children for a user without the resource.
C23_GuardChecksResources ==
    (GuardRendered /\ ProfilePresent)
        => /\ last.value.view = "UnauthorizedComponent" <=> ~RequirementMet
           /\ last.value.view = "children" <=> RequirementMet

C25_StorageRoundTrip ==
    [][last'.op = "getStoredUser"
         => /\ last.op = "storeUser" => last'.value = last.user
            /\ last.op = "clearStoredUser" => last'.value = NullProfile
            /\ localStorage.goiam_user = <<<<"invalid-json">>>>
                   => last'.value = NullProfile]_vars
C25_Witness ==
    /\ last.op = "getStoredUser"
    /\ last.arg = "storeUser"
    /\ last.value = Erin


\* C26: getAuthUrl() returns {baseUrl}/auth/v1/login with exactly the query
\* parameters client_id, redirect_url (the encoded configured redirectUrl),
\* code_challenge and code_challenge_method = S256.
\* The code builds the query from client_id and redirect_url alone, so this
\* is violated by every call.
C26_AuthUrlCarriesChallenge ==
    last.op = "getAuthUrl"
        => /\ last.value.pathname = hist.config.baseUrl \o "/auth/v1/login"
           /\ DOMAIN last.value = {"pathname", "client_id", "redirect_url",
                                   "code_challenge", "code_challenge_method"}
           /\ last.value.client_id = hist.config.clientId
           /\ last.value.redirect_url = URLEncoded(hist.config.redirectUrl)
           /\ last.value.code_challenge_method = "S256"

\* C27: login() changes no session field: the token, the user, the cache
\* timestamp, the client id, verified and the in-flight flags, the persistent
\* store and the requests in flight are after login() what they were before;
\* its one effect on the browser is the navigation to the authorization URL.
C27_LoginKeepsSession ==
    [][last'.op = "login"
         => /\ state' = state
            /\ localStorage' = localStorage
            /\ pending' = pending
            /\ location'.pathname = state.baseUrl \o "/auth/v1/login"]_vars
C27_Witness ==
    /\ last.op = "login"
    /\ Truthy(state.token)
    /\ UserPresent(state.user)
    /\ state.verifying
    /\ pending # EmptyBag

\* C28 as stated: after a reload the hydrated token, user, client id and
\* cache timestamp equal the values held in memory just before it.
C28_ReloadRestoresExactly ==
    [][last'.op = "reload"
         => /\ state'.token = state.token
            /\ state'.user = state.user
            /\ state'.clientId = state.clientId
            /\ state'.localStoreUpdatedAt = state.localStoreUpdatedAt]_vars

\* undefined and null are one absent user, undefined and "" one absent id
SameUser(a, b) == a = b \/ (~UserPresent(a) /\ ~UserPresent(b))
SameClientId(a, b) == a = b \/ (~Truthy(a) /\ ~Truthy(b))

\* C28 (amended): after a reload the hydrated token and cache timestamp
\* equal the values held in memory just before it, and the hydrated user and
\* client id equal them up to the form of an absent value.
C28_ReloadRestoresSession ==
    [][last'.op = "reload"
         => /\ state'.token = state.token
            /\ SameUser(state'.user, state.user)
            /\ SameClientId(state'.clientId, state.clientId)
            /\ state'.localStoreUpdatedAt = state.localStoreUpdatedAt]_vars
C28_Witness ==
    /\ last.op = "reload"
    /\ Truthy(state.token)
    /\ UserPresent(state.user)
    /\ Truthy(state.clientId)
    /\ state.localStoreUpdatedAt # <<>>

\* C29: the initialisation of GoIamProvider falls back to the stored
\* profile: when a stored user exists and the profile fetch fails, the
\* provider ends authenticated with the stored user and error null; when no
\* stored user exists and the fetch fails, it ends unauthenticated with user
\* null and error null.
C29_InitFallsBackToStored ==
    last.outcome = "rejected"
        => /\ last.op = "initializeAuth.stored"
                => /\ last.arg.stored \in Profiles
                   /\ state = Authenticated(last.arg.stored)
           /\ last.op = "initializeAuth"
                => /\ last.arg.stored = NullProfile
                   /\ state = Unauthenticated(NULL)
C29_Witness ==
    /\ last.op = "initializeAuth.stored"
    /\ last.outcome = "rejected"
    /\ last.message = <<FetchFailed>>
    /\ state.isAuthenticated
    /\ state.user = Carol
    /\ state.error = NULL

\* fetchUserProfile() has just rejected; last.value is the error its catch
\* was given, last.message the message of the error it threw
ProfileRejected == last.op = "fetchUserProfile" /\ last.outcome = "rejected"
HttpRejected == ProfileRejected /\ Len(last.value.message) = 4

\* C30 as stated for HTTP errors: an error 'HTTP <status>: <text>' is
\* rejected with the message '<text>'.
C30_HttpErrorGivesText ==
    HttpRejected => last.message = <<last.value.message[4]>>

\* C30 (amended): a call the server has not answered when the configured
\* timeout (10000 ms when none is configured) has passed is aborted and
\* rejects with 'Request timeout'; once the server has answered the timer
\* is cancelled and 'Request timeout' is never the result; an HTTP error
\* 'HTTP <status>: <text>' rejects with '<text>' when <text> is not empty
\* and with 'HTTP <status>: ' when it is.
C30_TimeoutAndHttpErrors ==
    /\ \A r \in ApiCalls :
          /\ r.stage = "sent" => r.timer = "armed" /\ now <= Deadline(r)
          /\ r.stage = "json" => r.timer = "cleared"
          /\ r.timeout = IF hist.config.redirectUrl = CallbackUrl
                         THEN DefaultTimeout ELSE ShortTimeout
    /\ ProfileRejected
          => /\ last.message = <<"Request timeout">>
                <=> (last.arg.stage = "sent" /\ now = Deadline(last.arg))
             /\ now >= Deadline(last.arg) /\ last.arg.stage = "sent"
                => last.value = AbortError
    /\ HttpRejected
          => last.message = IF last.value.message[4] # ""
                            THEN <<last.value.message[4]>>
                            ELSE last.value.message
C30_Witness ==
    /\ ProfileRejected
    /\ last.message = <<"Request timeout">>
    /\ last.arg.sentAt = 2000
    /\ now = 2000 + DefaultTimeout


\* C31: a profile fetch that was in flight when logout() ran does not
\* repopulate user or the stored profile when its response arrives: if the
\* step after logout() is the data handler of such a fetch, user is still
\* absent in memory and in storage after it.
\* The data handlers write the fetched profile unconditionally, so this is
\* violated.
C31_LogoutOutlivesStaleFetch ==
    [][(last.op = "logout" /\ last'.op \in {"dashboardMe.data", "me.data"})
         => /\ ~UserPresent(state'.user)
            /\ localStorage'.user \in {Absent, <<JSONstringify(NullUser)>>}]_vars


\* C32: a 401 response to dashboardMe leaves the cached user and the cache
\* timestamp unchanged, in memory and in storage: the handler that ends the
\* call neither clears user nor advances localStoreUpdatedAt.
\* After a 401 the chain goes on to response.json() and the data handler,
\* which stamps the cache and overwrites user, so this is violated whenever
\* the body of the 401 is JSON.
C32_UnauthorizedKeepsCache ==
    [][(last'.op = "dashboardMe.data" /\ last'.status = 401)
         => /\ state'.user = state.user
            /\ state'.localStoreUpdatedAt = state.localStoreUpdatedAt
            /\ localStorage'.user = localStorage.user
            /\ localStorage'.localStoreUpdatedAt = localStorage.localStoreUpdatedAt]_vars

\* the handlers that end a verify call and a profile fetch
VerifySettled == last.op \in {"verify.data", "verify.catch"}
ProfileSettled ==
    last.op \in {"dashboardMe.data", "dashboardMe.catch", "me.data", "me.catch"}

\* C33: whenever a verify or profile-fetch call settles (success, failure
\* envelope, non-2xx status, 401, network error, unreadable body) its
\* in-flight flag is false afterwards; and a flag is set only while a call of
\* its kind is in flight, so once that call settles a later call is not
\* suppressed.
C33_SettledClearsFlag ==
    /\ VerifySettled => ~state.verifying
    /\ ProfileSettled => ~state.loadingMe
    /\ state.verifying <=> VerifyFetches # {}
    /\ state.loadingMe <=> ProfileFetches # {}
C33_Witness ==
    /\ last.op = "dashboardMe.catch"
    /\ last.message = Template("Failed to fetch auth info: ", FetchFailed)
    /\ ~state.loadingMe
    /\ state.verifying

\* what me() does: nothing while a profile fetch is in flight, else it sends
MeGuarded ==
    last'.op = "me"
        => /\ localStorage' = localStorage
           /\ IF state.loadingMe
              THEN state' = state /\ pending' = pending
              ELSE /\ state' = [state EXCEPT !.loadingMe = TRUE]
                   /\ pending' = Add(Request("me", FALSE, Bearer(state.token)))
\* a successful me() replaces user and leaves the cache timestamp alone
MeKeepsTimestamp ==
    (last'.op = "me.data" /\ last'.outcome = "data")
        => /\ state'.user = last'.user
           /\ state'.localStoreUpdatedAt = state.localStoreUpdatedAt
           /\ localStorage'.localStoreUpdatedAt = localStorage.localStoreUpdatedAt

\* C34 as stated: me() sends whenever no profile fetch is in flight, whatever
\* the cache age, never changes the cache timestamp, and is a no-op while a
\* profile fetch is in flight; dashboardMe() is a no-op too while one is.
C34_SharedGuardNoOp ==
    [][/\ MeGuarded
       /\ MeKeepsTimestamp
       /\ (last'.op = "dashboardMe" /\ state.loadingMe)
            => /\ state' = state
               /\ pending' = pending
               /\ localStorage' = localStorage]_vars

\* C34 (amended): as stated for me(); dashboardMe() sends no request while a
\* profile fetch is in flight and writes nothing to storage, but when the
\* cache is fresh it still takes the cache path, which sets clientAvailable
\* and loadedState; only past the cache test is it a no-op.
C34_SharedGuardNoRequest ==
    [][/\ MeGuarded
       /\ MeKeepsTimestamp
       /\ (last'.op = "dashboardMe" /\ state.loadingMe)
            => /\ pending' = pending
               /\ localStorage' = localStorage
               /\ state' = IF CacheIsFresh(last'.force)
                           THEN [state EXCEPT
                                    !.clientAvailable = Truthy(state.clientId),
                                    !.loadedState = TRUE]
                           ELSE state]_vars
C34_Witness ==
    /\ last.op = "me"
    /\ last.sent = 1
    /\ CacheIsFresh(FALSE)
    /\ state.loadingMe

\* C35: after every completed operation of the session manager the token,
\* the user and the cache timestamp in memory equal the values persisted
\* under access_token, user and localStoreUpdatedAt, an absent user being
\* persisted as null or as a removed key (and an empty token or timestamp
\* as a removed key).
C35_MemoryMatchesStore ==
    /\ state.token = OrEmpty(localStorage.access_token)
    /\ IF UserPresent(state.user)
       THEN /\ localStorage.user # Absent
            /\ JSONparse(localStorage.user[1]) = state.user
       ELSE localStorage.user \in {Absent, <<<<"null">>>>}
    /\ state.localStoreUpdatedAt =
          IF localStorage.localStoreUpdatedAt = Absent THEN <<>>
          ELSE localStorage.localStoreUpdatedAt[1]
C35_Witness ==
    /\ last.op = "dashboardMe.data"
    /\ UserPresent(state.user)
    /\ Truthy(state.token)
    /\ hist.stamped
    /\ state.verified

\* C36: in every state of GoIamProvider, after any sequence of
\* initialisation, refreshUser (success or failure) and logout,
\* isAuthenticated is true if and only if user is not null.
C36_AuthenticatedIffUser ==
    state.isAuthenticated <=> state.user \in Profiles
C36_Witness ==
    /\ last.op = "provider.logout"
    /\ ~state.isAuthenticated
    /\ state.user = NullProfile
    /\ \E r \in ApiCalls : r.caller = "refreshUser" /\ r.stored = NullProfile

\* the calls whose continuation belongs to the provider
ProviderCallers == {"initializeAuth.stored", "initializeAuth", "refreshUser"}
ProviderFetches == {r \in ApiCalls : r.caller \in ProviderCallers}

\* C37: GoIamProvider always leaves the loading state: isLoading is true
\* only while a fetch of initializeAuth or refreshUser is in flight (or the
\* effect that starts one is due), and it is false after every settlement of
\* such a fetch, successful or failed, and after logout, a logout with a
\* fetch pending included.
C37_LoadingEnds ==
    /\ state.isLoading => (ProviderFetches # {} \/ hist.effect)
    /\ (last.op \in ProviderCallers /\ last.outcome \in {"resolved", "rejected"})
          => ~state.isLoading
    /\ last.op = "provider.logout" => ~state.isLoading
C37_Witness ==
    /\ last.op = "refreshUser"
    /\ last.outcome = "rejected"
    /\ ~state.isLoading
    /\ ProviderFetches # {}

\* a method of the Go client has just returned a nil error
GoCalled == last.op \in {"Verify", "Me", "CreateResource", "DeleteResource"}
NilError == ~last.value.panic /\ last.value.err = nil

\* C38: Verify, Me, CreateResource and DeleteResource return a nil error
\* only when the HTTP status is 200 and the envelope has success true; every
\* response with another status yields an error, whatever its body.
\* The status error is used only when the body cannot be decoded, so a
\* non-200 response whose body says success true returns a nil error.
C38_NilErrorOnlyOnOk ==
    (GoCalled /\ NilError)
        => /\ ~last.arg.failed
           /\ last.arg.status = 200
           /\ last.arg.body.success = <<TRUE>>

\* C39: Verify never panics on a decodable response: when the envelope has
\* success true and data is null or missing it returns an error or an empty
\* token.
\* The code reads result.Data.AccessToken through the nil pointer.
C39_VerifyNeverPanics ==
    (last.op = "Verify" /\ ~last.arg.failed /\ last.arg.body.decodable)
        => ~last.value.panic
====
